---- MODULE Spec2Model ----
(***************************************************************************)
(* Cue sequencing engine of the TouchDesigner MCP bridge                   *)
(* (src/modules/mod_cues/handler.py): the cue_storage table, the global    *)
(* _cue_state, the delayed run() scripts of the host and the node          *)
(* parameters the snapshots and actions write.                             *)
(*                                                                         *)
(* Durations are counted in tenths of a second, so that the conversion     *)
(* int(duration * me.time.rate) of a fractional duration is a truncation.  *)
(* A delayed script run(..., delayFrames=n) is pending for n host frames   *)
(* and then runs; scripts due in the same frame run in any order.          *)
(***************************************************************************)
EXTENDS Integers, Sequences, FiniteSets, TLC

\* ---------------------------------------------------------------- bounds
MaxCues == 3       \* rows the store may hold in the store specification
MaxShow == 2       \* rows the store may hold in the engine specifications
MaxRuns == 3       \* delayed scripts pending when an external call is taken

\* largest index a save may allocate or a reorder may name
MaxIndex == MaxCues + 1

\* me.time.rate, the host's frames per second
FrameRate == 2

\* ---------------------------------------------------------------- values
NoId == 0          \* cue_id None or '' (falsy)
NoIndex == -1      \* index None / key absent from a result
Stale == -1        \* a reference to a Run object that is no longer pending
NoTimer == 0       \* _cue_state['autofollow_timer'] is None
BadIndex == -2     \* a request's index that int() rejects, such as "abc"

Ids == 1..MaxCues

\* scene graph: the nodes "a" and "b", each with a writable custom parameter
\* "p"; "a" also has a read-only parameter "ro" and a menu parameter "m"
\* (held as its selected index), "b" a toggle "t" (on or off)
ScenePars == [a |-> [p |-> 0, ro |-> 0, m |-> 0], b |-> [p |-> 0, t |-> FALSE]]
ReadOnlyPars == {"ro"}
MenuPars == {"m"}
TogglePars == {"t"}
\* the order in which nodes and their parameters are visited
NodeOrder == << "a", "b" >>
ParOrder == << "p", "ro", "m", "t" >>

\* snapshots, as the ordered items of the stored mapping
SnapEmpty == << >>
SnapSetP == << [path |-> "a", ismap |-> TRUE, enabled |-> TRUE,
                params |-> << [name |-> "p", value |-> 1] >>] >>
SnapMissing == << [path |-> "x", ismap |-> TRUE, enabled |-> TRUE,
                   params |-> << [name |-> "p", value |-> 1] >>] >>
\* an entry whose value is not a mapping, e.g. {"a": 5}
SnapMalformed == << [path |-> "a", ismap |-> FALSE, enabled |-> TRUE,
                     params |-> << >>] >>

SnapEntry(path, enabled, value) ==
    [path |-> path, ismap |-> TRUE, enabled |-> enabled,
     params |-> << [name |-> "p", value |-> value] >>]

\* an unresolvable node first, then a resolvable one
SnapMixedFirst == << SnapEntry("x", TRUE, 1), SnapEntry("a", TRUE, 1) >>
\* resolvable and unresolvable nodes interleaved, one unresolvable node disabled
SnapMixedMid == << SnapEntry("a", TRUE, 1), SnapEntry("x", TRUE, 1),
                   SnapEntry("z", FALSE, 1), SnapEntry("b", TRUE, 1),
                   SnapEntry("y", TRUE, 1) >>

\* action lists
ActNone == << >>
ActResetP == << [type |-> "parameter", path |-> "a", parameter |-> "p", value |-> 0] >>
ActUnknown == << [type |-> "bogus", path |-> "", parameter |-> "", value |-> 0] >>
ParAction(path, value) ==
    [type |-> "parameter", path |-> path, parameter |-> "p", value |-> value]
\* failing actions before and between succeeding ones
ActSeq == << [type |-> "bogus", path |-> "", parameter |-> "", value |-> 0],
             ParAction("a", 2), ParAction("x", 2), ParAction("a", 3) >>
ActResetAll == << ParAction("a", 0), ParAction("b", 0) >>

\* a request body; name is cue_data.get('name', 'Untitled')
CueData(id, snapshot, duration, autofollow, actions) ==
    [id |-> id, name |-> "Untitled", snapshot |-> snapshot, duration |-> duration,
     autofollow |-> autofollow, actions |-> actions]

Named(cue_data, name) == [cue_data EXCEPT !.name = name]

\* the empty body {}: every field at its default
NoData == CueData(NoId, SnapEmpty, 0, FALSE, ActNone)

\* datetime.now() at two different seconds
Times == {1, 2}
\* the time of the saves of a show that was prepared in one go
Sometime == 1

\* ---------------------------------------------------------------- state
VARIABLES
    table,      \* cue_storage rows below the header, in row order
    cue_state,  \* _cue_state: current_index, autofollow_timer
    runs,       \* delayed run() scripts of the host that are still pending
    pars,       \* parameter values of the scene's nodes
    call,       \* the last request or host event
    ret,        \* what it returned
    available,  \* whether _get_table() finds the bridge and its cue_storage table
    project,    \* the host's timeline: play, frame, rate, loop
    osc_out     \* the oscout_cues transport of the bridge and the last message it sent

vars == <<table, cue_state, runs, pars, call, ret, available, project, osc_out>>

\* ---------------------------------------------------------------- results
NoResults == [snapshot_applied |-> << >>, snapshot_errors |-> << >>,
              actions_executed |-> << >>]

Result(success, error) ==
    [success |-> success, error |-> error, id |-> NoId, index |-> NoIndex,
     old_index |-> NoIndex, new_index |-> NoIndex, current_index |-> NoIndex,
     flag |-> "", results |-> NoResults, cues |-> << >>, raised |-> FALSE]

\* _get_table() gave None
Unavailable == Result(FALSE, "Cue table not available")

\* an exception that leaves the handler: the caller gets no result
Raised(error) == [Result(FALSE, error) EXCEPT !.raised = TRUE]

Call(op, id, index) == [op |-> op, id |-> id, index |-> index, data |-> NoData]

\* ---------------------------------------------------------------- cells
\* str(autofollow) on save, str(cell).lower() == 'true' on execute
StrOfBool(b) == IF b THEN "True" ELSE "False"
Lower(s) == CASE s = "True" -> "true" [] s = "False" -> "false" [] OTHER -> s
ParseAutofollow(cell) == Lower(cell) = "true"

\* ---------------------------------------------------------------- store
RECURSIVE FindRowById(_, _, _)
FindRowById(tbl, cue_id, i) ==
    IF i > Len(tbl) THEN 0
    ELSE IF tbl[i].id = cue_id THEN i
    ELSE FindRowById(tbl, cue_id, i + 1)

RECURSIVE MaxIndexOf(_, _, _)
MaxIndexOf(tbl, i, max_index) ==
    IF i > Len(tbl) THEN max_index
    ELSE MaxIndexOf(tbl, i + 1, IF tbl[i].index > max_index THEN tbl[i].index ELSE max_index)

\* an index taken from the number of rows
NewIndexByCount(tbl) == Len(tbl) + 1

NewIndex(tbl) == MaxIndexOf(tbl, 1, 0) + 1

\* the cells an update writes: columns 2, 3, 4, 5, 6 and 8
UpdatedRowRestamps(row, cue_data, now) ==
    [row EXCEPT !.name = cue_data.name,
                !.snapshot = cue_data.snapshot,
                !.duration = cue_data.duration,
                !.autofollow = StrOfBool(cue_data.autofollow),
                !.actions = cue_data.actions,
                !.created = now,
                !.modified = now]

UpdatedRow(row, cue_data, now) ==
    [row EXCEPT !.name = cue_data.name,
                !.snapshot = cue_data.snapshot,
                !.duration = cue_data.duration,
                !.autofollow = StrOfBool(cue_data.autofollow),
                !.actions = cue_data.actions,
                !.modified = now]

NewRow(new_id, new_index, cue_data, now) ==
    [id |-> new_id, index |-> new_index, name |-> cue_data.name,
     snapshot |-> cue_data.snapshot,
     duration |-> cue_data.duration, autofollow |-> StrOfBool(cue_data.autofollow),
     actions |-> cue_data.actions, created |-> now, modified |-> now]

\* the row save_cue updates: the first one with the caller's id, 0 for none
ExistingRowNever(tbl, cue_id) == 0

ExistingRow(tbl, cue_id) == IF cue_id # NoId THEN FindRowById(tbl, cue_id, 1) ELSE 0

\* save_cue: update in place when the id matches a row, append otherwise;
\* new_id is the uuid drawn when the caller gave no id
save_cue(cue_data, new_id, now) ==
    LET existing_row == ExistingRow(table, cue_data.id)
    IN  /\ call' = [Call("save", cue_data.id, NoIndex) EXCEPT !.data = cue_data]
        /\ IF ~available
           THEN /\ table' = table
                /\ ret' = Unavailable
           ELSE IF existing_row # 0
           THEN /\ table' = [table EXCEPT ![existing_row] = UpdatedRow(@, cue_data, now)]
                /\ ret' = [Result(TRUE, "") EXCEPT !.id = cue_data.id, !.flag = "updated"]
           ELSE LET id == IF cue_data.id # NoId THEN cue_data.id ELSE new_id
                    new_index == NewIndex(table)
                IN  /\ table' = Append(table, NewRow(id, new_index, cue_data, now))
                    /\ ret' = [Result(TRUE, "") EXCEPT !.id = id, !.index = new_index,
                                                       !.flag = "created"]
        /\ UNCHANGED <<cue_state, runs, pars, available, project, osc_out>>

\* table.deleteRow(i)
DeleteRowRenumber(tbl, i) ==
    [k \in 1..(Len(tbl) - 1) |->
        IF k < i THEN tbl[k] ELSE [tbl[k + 1] EXCEPT !.index = @ - 1]]

DeleteRow(tbl, i) == SubSeq(tbl, 1, i - 1) \o SubSeq(tbl, i + 1, Len(tbl))

\* a delete that moves current_index back when it removes the current cue
delete_cue_rewinds(cue_id) ==
    LET row == FindRowById(table, cue_id, 1)
    IN  /\ call' = Call("delete", cue_id, NoIndex)
        /\ IF row # 0
           THEN /\ table' = DeleteRow(table, row)
                /\ ret' = [Result(TRUE, "") EXCEPT !.id = cue_id, !.flag = "deleted"]
                /\ cue_state' = IF table[row].index = cue_state.current_index
                                THEN [cue_state EXCEPT !.current_index = @ - 1]
                                ELSE cue_state
           ELSE /\ table' = table
                /\ ret' = Result(FALSE, "Cue not found")
                /\ cue_state' = cue_state
        /\ UNCHANGED <<runs, pars, available, project, osc_out>>

delete_cue(cue_id) ==
    LET row == FindRowById(table, cue_id, 1)
    IN  /\ call' = Call("delete", cue_id, NoIndex)
        /\ IF ~available
           THEN /\ table' = table
                /\ ret' = Unavailable
           ELSE IF row # 0
           THEN /\ table' = DeleteRow(table, row)
                /\ ret' = [Result(TRUE, "") EXCEPT !.id = cue_id, !.flag = "deleted"]
           ELSE /\ table' = table
                /\ ret' = Result(FALSE, "Cue not found")
        /\ UNCHANGED <<cue_state, runs, pars, available, project, osc_out>>

\* the index a non-target row gets when the target moves old_index -> new_index
ShiftedLax(idx, old_index, new_index) ==
    IF old_index < new_index
    THEN IF old_index < idx /\ idx < new_index THEN idx - 1 ELSE idx
    ELSE IF new_index < idx /\ idx < old_index THEN idx + 1 ELSE idx

\* a move that closes the gap only when the cue moves down the list
ShiftedOneWay(idx, old_index, new_index) ==
    IF old_index < new_index /\ old_index < idx /\ idx <= new_index THEN idx - 1 ELSE idx

Shifted(idx, old_index, new_index) ==
    IF old_index < new_index
    THEN IF old_index < idx /\ idx <= new_index THEN idx - 1 ELSE idx
    ELSE IF new_index <= idx /\ idx < old_index THEN idx + 1 ELSE idx

Reordered(tbl, target_row, new_index) ==
    [i \in 1..Len(tbl) |->
        IF i = target_row
        THEN [tbl[i] EXCEPT !.index = new_index]
        ELSE [tbl[i] EXCEPT !.index = Shifted(@, tbl[target_row].index, new_index)]]

reorder_cue(cue_id, new_index) ==
    LET target_row == FindRowById(table, cue_id, 1)
    IN  /\ call' = Call("reorder", cue_id, new_index)
        /\ IF ~available
           THEN /\ table' = table
                /\ ret' = Unavailable
           ELSE IF target_row = 0
           THEN /\ table' = table
                /\ ret' = Result(FALSE, "Cue not found")
           ELSE /\ table' = Reordered(table, target_row, new_index)
                /\ ret' = [Result(TRUE, "") EXCEPT !.id = cue_id,
                                !.old_index = table[target_row].index,
                                !.new_index = new_index]
        /\ UNCHANGED <<cue_state, runs, pars, available, project, osc_out>>

\* ---------------------------------------------------------------- list_cues
\* v.get('enabled', True) fails on an entry that is no mapping
HasNonMapping(snapshot) == \E k \in 1..Len(snapshot) : ~snapshot[k].ismap

ListedCue(row) ==
    [id |-> row.id, index |-> row.index, name |-> row.name,
     snapshot |-> row.snapshot, duration |-> row.duration,
     autofollow |-> ParseAutofollow(row.autofollow), actions |-> row.actions,
     created |-> row.created, modified |-> row.modified,
     component_count |-> Len(row.snapshot),
     enabled_count |-> Cardinality({ k \in 1..Len(row.snapshot) : row.snapshot[k].enabled })]

\* cues.sort(key=index): a stable sort
RECURSIVE SortedByIndex(_)
SortedByIndex(cues) ==
    IF cues = << >> THEN << >>
    ELSE LET rest == SortedByIndex(SubSeq(cues, 1, Len(cues) - 1))
             c == cues[Len(cues)]
             k == Cardinality({ j \in 1..Len(rest) : rest[j].index <= c.index })
         IN  SubSeq(rest, 1, k) \o <<c>> \o SubSeq(rest, k + 1, Len(rest))

list_cues ==
    /\ call' = Call("list", NoId, NoIndex)
    /\ ret' = IF ~available THEN Unavailable
              ELSE IF \E i \in 1..Len(table) : HasNonMapping(table[i].snapshot)
              THEN Result(FALSE, "exception")
              ELSE [Result(TRUE, "") EXCEPT
                        !.cues = SortedByIndex([i \in 1..Len(table) |-> ListedCue(table[i])]),
                        !.current_index = cue_state.current_index]
    /\ UNCHANGED <<table, cue_state, runs, pars, available, project, osc_out>>

\* ---------------------------------------------------------------- snapshot capture
\* a capture that records a menu by eval(): its label, which is no number
CapturedByEval(name, v) ==
    IF name \in MenuPars THEN BadIndex
    ELSE IF name \in TogglePars THEN (IF v THEN 1 ELSE 0)
    ELSE v

\* what is recorded for a parameter: menuIndex, int(par.eval()) or par.eval()
Captured(name, v) ==
    IF name \in MenuPars THEN v
    ELSE IF name \in TogglePars THEN (IF v THEN 1 ELSE 0)
    ELSE v

\* the custom parameters of a node that are not read-only, with their values
RECURSIVE CustomParams(_, _)
CustomParams(nodepars, k) ==
    IF k > Len(ParOrder) THEN << >>
    ELSE LET name == ParOrder[k] IN
         IF name \in DOMAIN nodepars /\ name \notin ReadOnlyPars
         THEN << [name |-> name, value |-> Captured(name, nodepars[name])] >>
              \o CustomParams(nodepars, k + 1)
         ELSE CustomParams(nodepars, k + 1)

\* snapshot_all_components: one enabled entry per node that has such parameters
RECURSIVE snapshot_all_components(_, _)
snapshot_all_components(ps, k) ==
    IF k > Len(NodeOrder) THEN << >>
    ELSE LET custom_params == CustomParams(ps[NodeOrder[k]], 1) IN
         IF custom_params # << >>
         THEN << [path |-> NodeOrder[k], ismap |-> TRUE, enabled |-> TRUE,
                  params |-> custom_params] >> \o snapshot_all_components(ps, k + 1)
         ELSE snapshot_all_components(ps, k + 1)

\* ---------------------------------------------------------------- snapshot application
\* the writes of one entry's params, in order: a parameter the node does not
\* have (getattr gives None) or that is read-only is skipped without an
\* error; int(value) of a menu or toggle parameter raises on a value that is
\* no number; a toggle gets bool(int(value))
RECURSIVE ApplyParams(_, _, _, _, _)
ApplyParams(params, k, nodepars, applied, errors) ==
    IF k > Len(params) THEN [nodepars |-> nodepars, applied |-> applied, errors |-> errors]
    ELSE LET name == params[k].name
             value == params[k].value
         IN  IF name \notin DOMAIN nodepars \/ name \in ReadOnlyPars
             THEN ApplyParams(params, k + 1, nodepars, applied, errors)
             ELSE IF name \in MenuPars \cup TogglePars /\ value = BadIndex
             THEN ApplyParams(params, k + 1, nodepars, applied, Append(errors, name))
             ELSE IF name \in TogglePars
             THEN ApplyParams(params, k + 1,
                              [nodepars EXCEPT ![name] = (value # 0)],
                              Append(applied, name), errors)
             ELSE ApplyParams(params, k + 1, [nodepars EXCEPT ![name] = value],
                              Append(applied, name), errors)

RECURSIVE ApplySnapshotHalt(_, _, _, _)
ApplySnapshotHalt(snapshot, k, ps, results) ==
    IF k > Len(snapshot) THEN [pars |-> ps, results |-> results, raised |-> FALSE]
    ELSE LET e == snapshot[k] IN
         IF ~e.ismap THEN [pars |-> ps, results |-> results, raised |-> TRUE]
         ELSE IF ~e.enabled THEN ApplySnapshotHalt(snapshot, k + 1, ps, results)
         ELSE IF e.path \notin DOMAIN ps
         THEN [pars |-> ps,
               results |-> [results EXCEPT !.snapshot_errors =
                    Append(@, [path |-> e.path, error |-> "Component not found"])],
               raised |-> FALSE]
         ELSE LET w == ApplyParams(e.params, 1, ps[e.path], << >>, << >>) IN
              ApplySnapshotHalt(snapshot, k + 1, [ps EXCEPT ![e.path] = w.nodepars],
                [results EXCEPT !.snapshot_applied =
                    Append(@, [path |-> e.path, applied |-> Len(w.applied),
                               errors |-> w.errors])])

\* a loop that does not look at the enabled flag
RECURSIVE ApplySnapshotAll(_, _, _, _)
ApplySnapshotAll(snapshot, k, ps, results) ==
    IF k > Len(snapshot) THEN [pars |-> ps, results |-> results, raised |-> FALSE]
    ELSE LET e == snapshot[k] IN
         IF ~e.ismap THEN [pars |-> ps, results |-> results, raised |-> TRUE]
         ELSE IF e.path \notin DOMAIN ps
         THEN ApplySnapshotAll(snapshot, k + 1, ps,
                [results EXCEPT !.snapshot_errors =
                    Append(@, [path |-> e.path, error |-> "Component not found"])])
         ELSE LET w == ApplyParams(e.params, 1, ps[e.path], << >>, << >>) IN
              ApplySnapshotAll(snapshot, k + 1, [ps EXCEPT ![e.path] = w.nodepars],
                [results EXCEPT !.snapshot_applied =
                    Append(@, [path |-> e.path, applied |-> Len(w.applied),
                               errors |-> w.errors])])

\* the loop over snapshot.items(); raised: comp_data.get failed on an entry
\* that is no mapping, which ends execute_cue in its except clause
RECURSIVE ApplySnapshot(_, _, _, _)
ApplySnapshot(snapshot, k, ps, results) ==
    IF k > Len(snapshot) THEN [pars |-> ps, results |-> results, raised |-> FALSE]
    ELSE LET e == snapshot[k] IN
         IF ~e.ismap THEN [pars |-> ps, results |-> results, raised |-> TRUE]
         ELSE IF ~e.enabled THEN ApplySnapshot(snapshot, k + 1, ps, results)
         ELSE IF e.path \notin DOMAIN ps
         THEN ApplySnapshot(snapshot, k + 1, ps,
                [results EXCEPT !.snapshot_errors =
                    Append(@, [path |-> e.path, error |-> "Component not found"])])
         ELSE LET w == ApplyParams(e.params, 1, ps[e.path], << >>, << >>) IN
              ApplySnapshot(snapshot, k + 1, [ps EXCEPT ![e.path] = w.nodepars],
                [results EXCEPT !.snapshot_applied =
                    Append(@, [path |-> e.path, applied |-> Len(w.applied),
                               errors |-> w.errors])])

\* ---------------------------------------------------------------- actions
\* action.get(field, default)
Get(action, field, default) == IF field \in DOMAIN action THEN action[field] ELSE default

\* python code, by what it does when exec runs it
CodeReadIndex == "op('a').par.p = _cue_state['current_index']"
CodeRaise == "raise ValueError()"

NoMessage == [address |-> "", host |-> "", port |-> 0]
\* op('/project1/mcp_bridge/oscout_cues') is None
NoTransport == [exists |-> FALSE, host |-> "", port |-> 0, sent |-> NoMessage]

ActionResult(success, type, error, named) ==
    [success |-> success, type |-> type, error |-> error, named |-> named]

\* the except clause of execute_cue_action
ActionRaised(env) == [env |-> env, result |-> ActionResult(FALSE, "", "exception", "")]

\* a timeline branch that takes every unknown sub-action for stop
TimelineActionLax(action, env) ==
    LET timeline_action == Get(action, "action", "")
        pr == env.project
    IN  IF timeline_action \in {"play", "pause", "jump_frame", "set_rate", "toggle_loop"}
        THEN [env |-> env, result |-> ActionResult(TRUE, "timeline", "", timeline_action)]
        ELSE [env |-> [env EXCEPT !.project = [pr EXCEPT !.play = FALSE, !.frame = 1]],
              result |-> ActionResult(TRUE, "timeline", "", timeline_action)]

\* the timeline branch; rates are in tenths
TimelineAction(action, env) ==
    LET timeline_action == Get(action, "action", "")
        pr == env.project
        done(p) == [env |-> [env EXCEPT !.project = p],
                    result |-> ActionResult(TRUE, "timeline", "", timeline_action)]
    IN  CASE timeline_action = "play" -> done([pr EXCEPT !.play = TRUE])
          [] timeline_action = "pause" -> done([pr EXCEPT !.play = FALSE])
          [] timeline_action = "stop" -> done([pr EXCEPT !.play = FALSE, !.frame = 1])
          [] timeline_action = "jump_frame" ->
                LET frame == Get(action, "frame", 1) IN
                IF frame = BadIndex THEN ActionRaised(env)
                ELSE done([pr EXCEPT !.frame = frame])
          [] timeline_action = "set_rate" ->
                LET rate == Get(action, "rate", 10) IN
                IF rate = BadIndex THEN ActionRaised(env)
                ELSE done([pr EXCEPT !.rate = rate])
          [] timeline_action = "toggle_loop" -> done([pr EXCEPT !.loop = ~pr.loop])
          [] OTHER -> [env |-> env,
                       result |-> ActionResult(FALSE, "timeline", "Unknown timeline action",
                                               timeline_action)]

\* the osc branch: the transport is created on the first send only
OscAction(action, env) ==
    LET address == Get(action, "address", "")
        port == Get(action, "port", 7000)
        host == Get(action, "host", "127.0.0.1")
        out == IF env.osc_out.exists THEN env.osc_out
               ELSE [exists |-> TRUE, host |-> host, port |-> port, sent |-> NoMessage]
    IN  [env |-> [env EXCEPT !.osc_out =
                    [out EXCEPT !.sent = [address |-> address, host |-> out.host,
                                          port |-> out.port]]],
         result |-> ActionResult(TRUE, "osc", "", address)]

\* the python branch
PythonAction(action, env) ==
    LET code == Get(action, "code", "") IN
    CASE code = CodeRaise -> ActionRaised(env)
      [] code = CodeReadIndex ->
            [env |-> [env EXCEPT !.pars["a"]["p"] = env.cue_state.current_index],
             result |-> ActionResult(TRUE, "python", "", "")]
      [] OTHER -> [env |-> env, result |-> ActionResult(TRUE, "python", "", "")]

\* execute_cue_action in the environment env (parameters, timeline, transport
\* and _cue_state): the new environment and the action's result
execute_cue_action(action, env) ==
    LET action_type == Get(action, "type", "") IN
    CASE action_type = "python" -> PythonAction(action, env)
      [] action_type = "osc" -> OscAction(action, env)
      [] action_type = "parameter" ->
            LET op_path == Get(action, "path", "")
                param == Get(action, "parameter", "")
            IN  IF op_path # "" /\ param # "" /\ op_path \in DOMAIN env.pars
                THEN [env |-> [env EXCEPT !.pars[op_path][param] = Get(action, "value", 0)],
                      result |-> ActionResult(TRUE, "parameter", "", "")]
                ELSE [env |-> env,
                      result |-> ActionResult(FALSE, "parameter",
                                              "Invalid path or parameter", "")]
      [] action_type = "timeline" -> TimelineAction(action, env)
      [] OTHER -> [env |-> env,
                   result |-> ActionResult(FALSE, "", "Unknown action type", action_type)]

\* the loop over cue['actions']
RECURSIVE RunActionsHalt(_, _, _, _)
RunActionsHalt(actions, k, env, results) ==
    IF k > Len(actions) THEN [env |-> env, results |-> results]
    ELSE LET a == execute_cue_action(actions[k], env)
             rs == [results EXCEPT !.actions_executed =
                        Append(@, [action |-> actions[k], result |-> a.result])]
         IN  IF a.result.success THEN RunActionsHalt(actions, k + 1, a.env, rs)
             ELSE [env |-> a.env, results |-> rs]

RECURSIVE RunActions(_, _, _, _)
RunActions(actions, k, env, results) ==
    IF k > Len(actions) THEN [env |-> env, results |-> results]
    ELSE LET a == execute_cue_action(actions[k], env) IN
         RunActions(actions, k + 1, a.env,
            [results EXCEPT !.actions_executed =
                Append(@, [action |-> actions[k], result |-> a.result])])

\* ---------------------------------------------------------------- autofollow
\* int(cue['duration'] * me.time.rate), the duration being in tenths of a second
DelayFramesCeil(duration) == (duration * FrameRate + 9) \div 10

DelayFrames(duration) == (duration * FrameRate) \div 10

\* a timer that comes back to the cue that armed it
NextIndexSame(index) == index

NextIndexOf(index) == index + 1

ShouldArmOnFlag(autofollow, duration) == autofollow

ShouldArm(autofollow, duration) == autofollow /\ duration > 0

\* the Run objects something still refers to: the pending timers, the
\* arguments of the pending cancel scripts and the stored handle
Handles(rs, timer) ==
    { r.h : r \in { q \in rs : q.kind = "exec" } }
    \cup { r.arg : r \in { q \in rs : q.kind = "cancel" } } \cup { timer }

\* the Run object a run() call returns: one no live reference designates
NewHandle(used) ==
    CHOOSE h \in 1..(Cardinality(used) + 1) :
        h \notin used /\ \A g \in 1..(h - 1) : g \in used

RunOf(h, kind, arg, delay) == [h |-> h, kind |-> kind, arg |-> arg, delay |-> delay, age |-> 0]

\* arming that gives up when the stored timer has already run
ArmAborts(cue, rs, timer) ==
    IF ShouldArm(ParseAutofollow(cue.autofollow), cue.duration) /\ timer \notin {Stale}
    THEN LET rs1 == IF timer # NoTimer
                    THEN rs \cup { RunOf(NoTimer, "cancel", timer, 1) }
                    ELSE rs
             ht == NewHandle(Handles(rs1, timer))
         IN  [runs |-> rs1 \cup { RunOf(ht, "exec", NextIndexOf(cue.index),
                                        DelayFrames(cue.duration)) },
              timer |-> ht]
    ELSE [runs |-> rs, timer |-> timer]

\* lines 325-334: the cancel script for the stored timer (one frame later) and
\* the new timer; gives the pending scripts and the stored handle
Arm(cue, rs, timer) ==
    IF ShouldArm(ParseAutofollow(cue.autofollow), cue.duration)
    THEN LET rs1 == IF timer # NoTimer
                    THEN rs \cup { RunOf(NoTimer, "cancel", timer, 1) }
                    ELSE rs
             ht == NewHandle(Handles(rs1, timer))
         IN  [runs |-> rs1 \cup { RunOf(ht, "exec", NextIndexOf(cue.index),
                                        DelayFrames(cue.duration)) },
              timer |-> ht]
    ELSE [runs |-> rs, timer |-> timer]

\* ---------------------------------------------------------------- execute_cue
RECURSIVE FindCueRow(_, _, _, _)
FindCueRow(tbl, cue_id, index, i) ==
    IF i > Len(tbl) THEN 0
    ELSE IF cue_id # NoId /\ tbl[i].id = cue_id THEN i
    ELSE IF index # NoIndex /\ tbl[i].index = index THEN i
    ELSE FindCueRow(tbl, cue_id, index, i + 1)

\* a miss changes nothing
NotFoundSetsIndex(cs, rs, ps, index) ==
    [cue_state |-> [cs EXCEPT !.current_index = index], runs |-> rs, pars |-> ps,
     project |-> project, osc_out |-> osc_out,
     ret |-> Result(FALSE, "Cue not found")]

\* a miss that tries the same index again a frame later
NotFoundRetries(cs, rs, ps, index) ==
    [cue_state |-> cs,
     runs |-> rs \cup { RunOf(NewHandle(Handles(rs, cs.autofollow_timer)), "exec", index, 1) },
     pars |-> ps, project |-> project, osc_out |-> osc_out,
     ret |-> Result(FALSE, "Cue not found")]

NotFound(cs, rs, ps, index) ==
    [cue_state |-> cs, runs |-> rs, pars |-> ps, project |-> project, osc_out |-> osc_out,
     ret |-> Result(FALSE, "Cue not found")]

\* execute_cue(cue_id, index) in the state (tbl, cs, rs, ps): the new
\* _cue_state, pending scripts and parameters, and the result
ExecuteCue(tbl, cs, rs, ps, cue_id, index) ==
    LET cue_row == FindCueRow(tbl, cue_id, index, 1) IN
    IF ~available
    THEN [cue_state |-> cs, runs |-> rs, pars |-> ps, project |-> project,
          osc_out |-> osc_out, ret |-> Unavailable]
    ELSE IF cue_row = 0 THEN NotFound(cs, rs, ps, index)
    ELSE
    LET cue == tbl[cue_row]
        cs1 == [cs EXCEPT !.current_index = cue.index]
        snap == ApplySnapshot(cue.snapshot, 1, ps, NoResults)
    IN  IF snap.raised
        THEN [cue_state |-> cs1, runs |-> rs, pars |-> snap.pars,
              project |-> project, osc_out |-> osc_out,
              ret |-> Result(FALSE, "exception")]
        ELSE
        LET env == [pars |-> snap.pars, project |-> project, osc_out |-> osc_out,
                    cue_state |-> cs1]
            acts == RunActions(cue.actions, 1, env, snap.results)
            armed == Arm(cue, rs, cs1.autofollow_timer)
        IN  [cue_state |-> [cs1 EXCEPT !.autofollow_timer = armed.timer],
             runs |-> armed.runs,
             pars |-> acts.env.pars,
             project |-> acts.env.project,
             osc_out |-> acts.env.osc_out,
             ret |-> [Result(TRUE, "") EXCEPT !.id = cue.id, !.index = cue.index,
                                              !.results = acts.results]]

\* A Run object that is no longer pending (it ran, or it was cancelled) is
\* written Stale wherever a reference to it remains, in _cue_state or as the
\* argument of a cancel script: nothing distinguishes two finished scripts.
Live(rs) == { r.h : r \in { q \in rs : q.kind = "exec" } }
RefTo(h, rs) == IF h = NoTimer \/ h \in Live(rs) THEN h ELSE Stale
RefsIn(rs) == { IF r.kind = "cancel" THEN [r EXCEPT !.arg = RefTo(@, rs)] ELSE r : r \in rs }

Commit(x) ==
    /\ cue_state' = [x.cue_state EXCEPT !.autofollow_timer = RefTo(@, x.runs)]
    /\ runs' = RefsIn(x.runs)
    /\ pars' = x.pars
    /\ project' = x.project
    /\ osc_out' = x.osc_out
    /\ UNCHANGED <<table, available>>

\* a go that looks at the index first
go_by_index_first(cue_id, index) ==
    /\ call' = Call("go", cue_id, index)
    /\ IF index # NoIndex
       THEN LET x == ExecuteCue(table, cue_state, runs, pars, NoId, index)
            IN  Commit(x) /\ ret' = x.ret
       ELSE IF cue_id # NoId
       THEN LET x == ExecuteCue(table, cue_state, runs, pars, cue_id, NoIndex)
            IN  Commit(x) /\ ret' = x.ret
       ELSE /\ ret' = Result(FALSE, "No cue ID or index provided")
            /\ UNCHANGED <<table, cue_state, runs, pars, available, project, osc_out>>

\* /cues/go: the id when one is given, else the index
go(cue_id, index) ==
    /\ call' = Call("go", cue_id, index)
    /\ IF cue_id # NoId
       THEN LET x == ExecuteCue(table, cue_state, runs, pars, cue_id, NoIndex)
            IN  Commit(x) /\ ret' = x.ret
       ELSE IF index # NoIndex
       THEN IF index = BadIndex
            THEN /\ ret' = Raised("ValueError")
                 /\ UNCHANGED <<table, cue_state, runs, pars, available, project, osc_out>>
            ELSE LET x == ExecuteCue(table, cue_state, runs, pars, NoId, index)
                 IN  Commit(x) /\ ret' = x.ret
       ELSE /\ ret' = Result(FALSE, "No cue ID or index provided")
            /\ UNCHANGED <<table, cue_state, runs, pars, available, project, osc_out>>

\* the index next() asks for
NextTargetSkipGap(tbl, current_index) ==
    LET above == { tbl[i].index : i \in 1..Len(tbl) } \cap (current_index + 1)..(MaxIndex + 2)
    IN  IF above = {} THEN current_index + 1
        ELSE CHOOSE m \in above : \A n \in above : m <= n

NextTarget(tbl, current_index) == current_index + 1

go_next ==
    LET x == ExecuteCue(table, cue_state, runs, pars, NoId,
                        NextTarget(table, cue_state.current_index))
    IN  /\ call' = Call("next", NoId, NoIndex)
        /\ Commit(x)
        /\ ret' = IF ~x.ret.success
                  THEN [Result(FALSE, "No more cues") EXCEPT
                            !.current_index = x.cue_state.current_index]
                  ELSE x.ret

\* the index back() refuses to go to
AtFirstCueLax(prev_index) == prev_index < 0

AtFirstCue(prev_index) == prev_index < 1

go_back ==
    LET prev_index == cue_state.current_index - 1 IN
    /\ call' = Call("back", NoId, NoIndex)
    /\ IF AtFirstCue(prev_index)
       THEN /\ ret' = [Result(FALSE, "Already at first cue") EXCEPT
                            !.current_index = cue_state.current_index]
            /\ UNCHANGED <<table, cue_state, runs, pars, available, project, osc_out>>
       ELSE LET x == ExecuteCue(table, cue_state, runs, pars, NoId, prev_index)
            IN  Commit(x) /\ ret' = x.ret

get_current_cue ==
    /\ call' = Call("current", NoId, NoIndex)
    /\ ret' = [Result(TRUE, "") EXCEPT !.current_index = cue_state.current_index]
    /\ UNCHANGED <<table, cue_state, runs, pars, available, project, osc_out>>

\* ---------------------------------------------------------------- the table in the host
\* setup(bridge_op): creates the table, with its header row only, when it is missing
setup ==
    /\ call' = Call("setup", NoId, NoIndex)
    /\ ret' = Result(TRUE, "")
    /\ available' = TRUE
    /\ table' = IF available THEN table ELSE << >>
    /\ UNCHANGED <<cue_state, runs, pars, project, osc_out>>

\* the bridge or its cue_storage table is deleted in the host
RemoveTable ==
    /\ available
    /\ call' = Call("remove", NoId, NoIndex)
    /\ ret' = Result(TRUE, "")
    /\ available' = FALSE
    /\ table' = << >>
    /\ UNCHANGED <<cue_state, runs, pars, project, osc_out>>

\* ---------------------------------------------------------------- host frames
Due(r) == r.age = r.delay

\* the host ends a frame once the scripts due in it have run
Tick ==
    /\ runs # {}
    /\ \A r \in runs : ~Due(r)
    /\ runs' = { [r EXCEPT !.age = @ + 1] : r \in runs }
    /\ call' = Call("tick", NoId, NoIndex)
    /\ ret' = Result(TRUE, "")
    /\ UNCHANGED <<table, cue_state, pars, available, project, osc_out>>

\* a due timer script runs: execute_cue(index=args[0])
FireTimer ==
    \E r \in runs :
        /\ r.kind = "exec" /\ Due(r)
        /\ LET x == ExecuteCue(table, cue_state, runs \ {r}, pars, NoId, r.arg)
           IN  /\ call' = Call("timer", r.h, r.arg)
               /\ Commit(x)
               /\ ret' = x.ret

\* a due cancel script runs: args[0].cancel() either ends the timer or fails
\* (the timer has fired already, or the host refuses)
FireCancel ==
    \E r \in runs, ok \in BOOLEAN :
        /\ r.kind = "cancel" /\ Due(r)
        /\ LET rs == IF ok THEN { q \in runs : q # r /\ q.h # r.arg } ELSE runs \ {r}
           IN  /\ runs' = RefsIn(rs)
               /\ cue_state' = [cue_state EXCEPT !.autofollow_timer = RefTo(@, rs)]
        /\ call' = Call("cancel", r.arg, NoIndex)
        /\ ret' = Result(ok, "")
        /\ UNCHANGED <<table, pars, available, project, osc_out>>

\* ---------------------------------------------------------------- store specification
StoreInputs == { CueData(id, SnapEmpty, 0, FALSE, ActNone) : id \in Ids \cup {NoId} }

Init ==
    /\ table = << >>
    /\ cue_state = [current_index |-> 0, autofollow_timer |-> NoTimer]
    /\ runs = {}
    /\ pars = ScenePars
    /\ call = Call("init", NoId, NoIndex)
    /\ ret = Result(TRUE, "")
    /\ available = TRUE
    /\ project = [play |-> TRUE, frame |-> 1, rate |-> 10, loop |-> TRUE]
    /\ osc_out = NoTransport

TableIds(tbl) == { tbl[i].id : i \in 1..Len(tbl) }

\* the ids uuid4 may give a new cue: any id no row has (NoId when none is drawn)
NewIdsAny(tbl, cue_data) == IF cue_data.id = NoId THEN Ids ELSE {NoId}

NewIds(tbl, cue_data) == IF cue_data.id = NoId THEN Ids \ TableIds(tbl) ELSE {NoId}

\* one of them, for the runs in which the choice does not matter: the number
\* of the new index when no row has it as id, else the least free id
NewIdFor(tbl) ==
    LET free == Ids \ TableIds(tbl) IN
    IF NewIndex(tbl) \in free THEN NewIndex(tbl)
    ELSE CHOOSE id \in free : \A other \in free : id <= other

\* the store's rows and indices stay within the bounds of the model
SaveWithinBounds(cue_data, max_rows, max_index) ==
    \/ cue_data.id \in TableIds(table)
    \/ Len(table) < max_rows /\ NewIndex(table) <= max_index

ReorderIndexes == 0..MaxIndex

SaveStore ==
    \E cue_data \in StoreInputs : \E new_id \in NewIds(table, cue_data) :
        SaveWithinBounds(cue_data, MaxCues, MaxIndex) /\ save_cue(cue_data, new_id, Sometime)

ReorderStore ==
    \E cue_id \in Ids, new_index \in ReorderIndexes : reorder_cue(cue_id, new_index)

NextStore == SaveStore \/ ReorderStore

SpecStore == Init /\ [][NextStore]_vars

\* ---------------------------------------------------------------- editing specification
Delete == \E cue_id \in Ids : delete_cue(cue_id)

\* two bodies that differ in every field, for a new cue and for each id
EditInputs ==
    { Named(CueData(id, SnapEmpty, 0, FALSE, ActNone), "A") : id \in Ids \cup {NoId} }
    \cup { Named(CueData(id, SnapSetP, 12, TRUE, ActResetP), "B") : id \in Ids \cup {NoId} }

SaveEdit ==
    \E cue_data \in EditInputs, now \in Times :
        /\ SaveWithinBounds(cue_data, MaxShow, MaxShow + 1)
        /\ save_cue(cue_data, IF cue_data.id = NoId THEN NewIdFor(table) ELSE NoId, now)

NextEdit == SaveEdit \/ Delete

SpecEdit == Init /\ [][NextEdit]_vars

\* ---------------------------------------------------------------- save, delete and reorder
\* the indexes a reorder names here: a negative one, 0 and those of the rows
CrudIndexes == (-1)..MaxShow

SaveCrud ==
    \E cue_data \in StoreInputs : \E new_id \in NewIds(table, cue_data) :
        /\ SaveWithinBounds(cue_data, MaxShow, MaxShow + 1)
        /\ save_cue(cue_data, new_id, Sometime)

ReorderCrud ==
    \E cue_id \in Ids, new_index \in CrudIndexes : reorder_cue(cue_id, new_index)

NextCrud == SaveCrud \/ Delete \/ ReorderCrud

SpecCrud == Init /\ [][NextCrud]_vars

\* ---------------------------------------------------------------- store claims
IndexSet(tbl) == { tbl[i].index : i \in 1..Len(tbl) }

\* the indices are exactly 1..N, each used once
IsPermutation(tbl) ==
    /\ IndexSet(tbl) = 1..Len(tbl)
    /\ \A i, j \in 1..Len(tbl) : tbl[i].index = tbl[j].index => i = j

\* the cue ids in index order, for a store whose indices are 1..N
Order(tbl) ==
    [k \in 1..Len(tbl) |-> tbl[CHOOSE i \in 1..Len(tbl) : tbl[i].index = k].id]

RemoveAt(s, k) == SubSeq(s, 1, k - 1) \o SubSeq(s, k + 1, Len(s))
InsertAt(s, k, x) == SubSeq(s, 1, k - 1) \o <<x>> \o SubSeq(s, k, Len(s))

\* C1: from an empty store, after any accepted sequence of save and reorder
\* calls (no delete), the cue indices are exactly 1..N, each used once.
C1_IndicesArePermutation == IsPermutation(table)

\* C2: reorder(id, new_index) with an unknown id or with new_index outside
\* [1, N] returns a failure and leaves every cue's index unchanged.
C2_ReorderRejectsBadInput ==
    [][ ( /\ call'.op = "reorder"
          /\ \/ call'.id \notin TableIds(table)
             \/ call'.index \notin 1..Len(table) )
        => ( /\ ret'.success = FALSE
             /\ Len(table') = Len(table)
             /\ \A i \in 1..Len(table) : table'[i].index = table[i].index ) ]_vars

\* C3: on a store whose indices are 1..N, reorder(id, new_index) with
\* new_index in [1, N] gives the ordering with the cue removed from its old
\* position and reinserted at new_index, again a permutation of 1..N.
C3_ReorderIsRemoveInsert ==
    [][ ( /\ call'.op = "reorder"
          /\ IsPermutation(table)
          /\ call'.id \in TableIds(table)
          /\ call'.index \in 1..Len(table) )
        => ( /\ ret'.success
             /\ IsPermutation(table')
             /\ Order(table') =
                  InsertAt(RemoveAt(Order(table), ret'.old_index), call'.index, call'.id)
             /\ TableIds(table') = TableIds(table) ) ]_vars

\* Scenario B: three cues, the first moved to position 3
C3_Witness ==
    /\ call.op = "reorder" /\ ret.success
    /\ Len(table) = 3 /\ IsPermutation(table)
    /\ ret.old_index = 1 /\ ret.new_index = 3
    /\ table[FindRowById(table, call.id, 1)].index = 3

\* the rows other than the target of the reorder request
OtherRows == { i \in 1..Len(table) : table[i].id # call'.id }
Between(idx, lo, hi) == lo < idx /\ idx < hi
Lesser(a, b) == IF a < b THEN a ELSE b
Greater(a, b) == IF a < b THEN b ELSE a

\* C23: reorder changes the index of exactly the target cue and of the other
\* cues whose index lies strictly between old_index and new_index, each by
\* one; a cue whose index equals new_index is not shifted.
C23_ShiftsStrictlyBetween ==
    [][ ( call'.op = "reorder" /\ ret'.success )
        => \A i \in OtherRows :
              LET idx == table[i].index
                  strictly == Between(idx, Lesser(ret'.old_index, ret'.new_index),
                                           Greater(ret'.old_index, ret'.new_index))
              IN  /\ strictly <=> table'[i].index # idx
                  /\ idx = ret'.new_index => table'[i].index = idx ]_vars

\* C23 (amended): reorder sets the target cue's index to new_index and changes
\* the index of exactly those other cues whose index lies between old_index
\* (exclusive) and new_index (inclusive): down by one when the target moves
\* to a higher index, up by one when it moves to a lower index.
C23_ShiftsUpToNewIndex ==
    [][ ( call'.op = "reorder" /\ ret'.success )
        => /\ Len(table') = Len(table)
           /\ \A i \in 1..Len(table) :
                 LET idx == table[i].index
                     old == ret'.old_index
                     new == ret'.new_index
                 IN  IF table[i].id = call'.id
                     THEN idx = old /\ table'[i].index = new
                     ELSE /\ ( old < idx /\ idx <= new ) => table'[i].index = idx - 1
                          /\ ( new <= idx /\ idx < old ) => table'[i].index = idx + 1
                          /\ ~( old < idx /\ idx <= new ) /\ ~( new <= idx /\ idx < old )
                               => table'[i].index = idx ]_vars

\* the cue that held new_index moved up when the second of two cues was
\* moved to the front
C23_Witness ==
    /\ call.op = "reorder" /\ ret.success
    /\ Len(table) = 2 /\ IsPermutation(table)
    /\ ret.old_index = 2 /\ ret.new_index = 1
    /\ table[1].id # call.id /\ table[1].index = 2
    /\ table[2].id = call.id /\ table[2].index = 1

\* C33: after any sequence of save, delete and reorder calls, with any
\* integer new_index, no two cues in the store have the same index.
C33_IndicesAreDistinct ==
    \A i, j \in 1..Len(table) : i # j => table[i].index # table[j].index

\* two cues after a reorder to an index outside 1..N
C33_Witness ==
    /\ call.op = "reorder" /\ ret.success
    /\ Len(table) = 2
    /\ ret.new_index \notin 1..Len(table)
    /\ ~IsPermutation(table)

\* ---------------------------------------------------------------- engine specification
EngineInputs ==
    { CueData(id, t[1], t[2], t[3], t[4]) :
        id \in {NoId},
        t \in { <<SnapSetP, 12, TRUE, ActNone>>,
                <<SnapEmpty, 3, TRUE, ActNone>>,
                <<SnapMissing, 0, TRUE, ActUnknown>>,
                <<SnapEmpty, 12, FALSE, ActResetP>>,
                <<SnapMalformed, 0, FALSE, ActNone>> } }

\* an external call is taken while the pending scripts leave room for its own
RoomForRuns == Cardinality(runs) + 2 <= MaxRuns

Save ==
    \E cue_data \in EngineInputs :
        SaveWithinBounds(cue_data, MaxShow, MaxShow) /\ save_cue(cue_data, NewIdFor(table), Sometime)

\* the requests /cues/go is given: an id, an index, both or neither
GoInputs ==
    { <<id, NoIndex>> : id \in Ids } \cup { <<NoId, index>> : index \in 1..(MaxShow + 1) }
    \cup { <<NoId, NoIndex>>, <<MaxCues, 1>> }

Go == \E g \in GoInputs : RoomForRuns /\ go(g[1], g[2])

GoNext == RoomForRuns /\ go_next

GoBack == RoomForRuns /\ go_back

Next == Save \/ Go \/ GoNext \/ GoBack \/ Tick \/ FireTimer \/ FireCancel

Spec == Init /\ [][Next]_vars

\* ---------------------------------------------------------------- navigation with delete
NavInputs ==
    { CueData(NoId, SnapEmpty, 12, TRUE, ActNone),
      CueData(NoId, SnapEmpty, 0, FALSE, ActNone) }

SaveNav ==
    \E cue_data \in NavInputs :
        SaveWithinBounds(cue_data, MaxShow, MaxShow) /\ save_cue(cue_data, NewIdFor(table), Sometime)

NextNav == SaveNav \/ Delete \/ GoNext \/ Tick \/ FireTimer \/ FireCancel

SpecNav == Init /\ [][NextNav]_vars

\* ---------------------------------------------------------------- a running show being edited
ShowInputs ==
    { CueData(NoId, SnapEmpty, 6, TRUE, ActNone),
      CueData(NoId, SnapEmpty, 0, FALSE, ActNone) }

SaveShow ==
    \E cue_data \in ShowInputs :
        SaveWithinBounds(cue_data, MaxShow, MaxShow) /\ save_cue(cue_data, NewIdFor(table), Sometime)

\* a stored cue is moved to a position of the list
ReorderShow ==
    \E cue_id \in TableIds(table), new_index \in 1..Len(table) : reorder_cue(cue_id, new_index)

\* the operator starts a cue when no script is pending
GoShow == \E index \in 1..MaxShow : runs = {} /\ go(NoId, index)

NextShow ==
    \/ SaveShow \/ Delete \/ ReorderShow \/ list_cues \/ GoShow
    \/ Tick \/ FireTimer \/ FireCancel

SpecShow == Init /\ [][NextShow]_vars

\* ---------------------------------------------------------------- autofollow chains left alone
\* external calls come only while no script is pending; the host runs every
\* frame and every script that is due
SaveChain ==
    \E cue_data \in ShowInputs :
        /\ runs = {}
        /\ SaveWithinBounds(cue_data, MaxShow, MaxShow)
        /\ save_cue(cue_data, NewIdFor(table), Sometime)

DeleteChain == runs = {} /\ Delete

ReorderChain == runs = {} /\ ReorderShow

NextChain ==
    \/ SaveChain \/ DeleteChain \/ ReorderChain \/ GoShow
    \/ Tick \/ FireTimer \/ FireCancel

SpecChain ==
    /\ Init /\ [][NextChain]_vars
    /\ WF_vars(Tick) /\ WF_vars(FireTimer) /\ WF_vars(FireCancel)

\* ---------------------------------------------------------------- execution without timers
ExecInputs ==
    { CueData(NoId, t[1], 0, FALSE, t[2]) :
        t \in { <<SnapMixedFirst, ActNone>>,
                <<SnapMixedMid, ActNone>>,
                <<SnapSetP, ActSeq>>,
                <<SnapEmpty, ActResetAll>> } }

SaveExec ==
    \E cue_data \in ExecInputs :
        SaveWithinBounds(cue_data, MaxShow, MaxShow) /\ save_cue(cue_data, NewIdFor(table), Sometime)

NextExec == SaveExec \/ Go

SpecExec == Init /\ [][NextExec]_vars

\* ---------------------------------------------------------------- go requests
\* a body with an id, an index, both or neither
GoBodies == (Ids \cup {NoId}) \X ({NoIndex} \cup 1..(MaxShow + 1))

GoAny == \E g \in GoBodies : go(g[1], g[2])

GoShowAny == \E index \in 1..MaxShow : go(NoId, index)

NextGo == SaveExec \/ GoAny

SpecGo == Init /\ [][NextGo]_vars

\* ---------------------------------------------------------------- capture and recall
\* looks that set every writable parameter, to values other than the defaults
SnapLookOne ==
    << [path |-> "a", ismap |-> TRUE, enabled |-> TRUE,
        params |-> << [name |-> "p", value |-> 1], [name |-> "m", value |-> 1] >>],
       [path |-> "b", ismap |-> TRUE, enabled |-> TRUE,
        params |-> << [name |-> "p", value |-> 2], [name |-> "t", value |-> 2] >>] >>
SnapLookTwo ==
    << [path |-> "a", ismap |-> TRUE, enabled |-> TRUE,
        params |-> << [name |-> "p", value |-> 2], [name |-> "m", value |-> 0] >>],
       [path |-> "b", ismap |-> TRUE, enabled |-> TRUE,
        params |-> << [name |-> "p", value |-> 0], [name |-> "t", value |-> 0] >>] >>

LookInputs ==
    { CueData(NoId, snapshot, 0, FALSE, ActNone) : snapshot \in { SnapLookOne, SnapLookTwo } }

SaveLook ==
    \E cue_data \in LookInputs :
        SaveWithinBounds(cue_data, MaxShow, MaxShow) /\ save_cue(cue_data, NewIdFor(table), Sometime)

\* the client saves what /cues/snapshot has just returned
SaveCaptured ==
    LET cue_data == Named(CueData(NoId, snapshot_all_components(pars, 1), 0, FALSE, ActNone),
                          "captured")
    IN  SaveWithinBounds(cue_data, MaxShow, MaxShow) /\ save_cue(cue_data, NewIdFor(table), Sometime)

NextCapture == SaveLook \/ SaveCaptured \/ Delete \/ GoShowAny

SpecCapture == Init /\ [][NextCapture]_vars

\* ---------------------------------------------------------------- every request
ApiInputs ==
    { CueData(NoId, SnapMixedMid, 0, FALSE, ActNone),
      CueData(NoId, SnapMalformed, 0, FALSE, ActNone) }

SaveApi ==
    \E cue_data \in ApiInputs :
        /\ SaveWithinBounds(cue_data, MaxShow, MaxShow + 1)
        /\ save_cue(cue_data, NewIdFor(table), Sometime)

\* also an index that is no number
GoApi == \E g \in GoInputs \cup { <<NoId, BadIndex>> } : go(g[1], g[2])

NextApi ==
    \/ SaveApi \/ Delete \/ ReorderCrud \/ GoApi \/ GoNext \/ GoBack
    \/ list_cues \/ get_current_cue \/ setup \/ RemoveTable

SpecApi == Init /\ [][NextApi]_vars

\* ---------------------------------------------------------------- snapshot writes
\* one node with a writable, a read-only, a missing and a menu parameter,
\* the menu value being no number
SnapHardPars ==
    << [path |-> "a", ismap |-> TRUE, enabled |-> TRUE,
        params |-> << [name |-> "p", value |-> 1], [name |-> "ro", value |-> 1],
                      [name |-> "zz", value |-> 1], [name |-> "m", value |-> BadIndex] >>] >>
\* disabled entries, one resolvable and one not, among enabled ones
SnapDisabled == << SnapEntry("a", FALSE, 1), SnapEntry("b", TRUE, 1),
                   SnapEntry("x", FALSE, 1), SnapEntry("y", TRUE, 1) >>
SnapReset == << SnapEntry("a", TRUE, 0), SnapEntry("b", TRUE, 0) >>

WriteInputs ==
    { CueData(NoId, snapshot, 0, FALSE, ActNone) :
        snapshot \in { SnapHardPars, SnapDisabled, SnapReset } }

SaveWrite ==
    \E cue_data \in WriteInputs :
        SaveWithinBounds(cue_data, MaxShow, MaxShow) /\ save_cue(cue_data, NewIdFor(table), Sometime)

NextWrite == SaveWrite \/ Go

SpecWrite == Init /\ [][NextWrite]_vars

\* ---------------------------------------------------------------- action dispatch
\* timeline actions that lack the field they need
ActNoField == << [type |-> "timeline", action |-> "jump_frame"],
                 [type |-> "timeline", action |-> "set_rate"] >>
\* unknown variants only
ActUnknowns == << [type |-> "bogus"], [type |-> "timeline", action |-> "rewind"] >>
\* unknown variants before actions of the four known types
ActUnknownsFirst ==
    << [type |-> "bogus"], [type |-> "timeline", action |-> "rewind"],
       [type |-> "osc", address |-> "/go", host |-> "10.0.0.2", port |-> 9000],
       ParAction("a", 2),
       [type |-> "timeline", action |-> "jump_frame", frame |-> 3],
       [type |-> "timeline", action |-> "set_rate", rate |-> 20] >>
ActObserve == << [type |-> "python", code |-> CodeReadIndex] >>
\* an osc action to another receiver, and one that names none
ActOscOther == << [type |-> "osc", address |-> "/lights", host |-> "10.0.0.3", port |-> 9001] >>
ActOscDefault == << [type |-> "osc", address |-> "/ping"] >>

ActInputs ==
    { CueData(NoId, SnapEmpty, 0, FALSE, actions) :
        actions \in { ActNoField, ActUnknowns, ActUnknownsFirst, ActObserve,
                      ActOscOther, ActOscDefault } }

SaveAct ==
    \E cue_data \in ActInputs :
        SaveWithinBounds(cue_data, MaxShow, MaxShow) /\ save_cue(cue_data, NewIdFor(table), Sometime)

NextAct == SaveAct \/ Go

SpecAct == Init /\ [][NextAct]_vars

\* ---------------------------------------------------------------- engine claims
ExecOps == {"go", "next", "back", "timer"}

\* the step is a cue execution whose target cue exists
TargetFound ==
    CASE call'.op = "go" ->
            IF call'.id # NoId THEN call'.id \in TableIds(table)
            ELSE call'.index \in IndexSet(table)
      [] call'.op = "next" -> (cue_state.current_index + 1) \in IndexSet(table)
      [] call'.op = "back" -> /\ cue_state.current_index - 1 >= 1
                              /\ (cue_state.current_index - 1) \in IndexSet(table)
      [] call'.op = "timer" -> call'.index \in IndexSet(table)
      [] OTHER -> FALSE

Timers(rs) == { r \in rs : r.kind = "exec" }

\* the timers the step armed
NewTimers == Timers(runs' \ runs)

\* the stored row of the cue the step executed
ExecutedCue == table[FindRowById(table, ret'.id, 1)]

\* C4: after every go, next or back call current_index is the index of the
\* last cue whose execution returned success=true; a call that returns
\* success=false leaves current_index unchanged.
C4_CurrentIndexIsLastSuccess ==
    [][ call'.op \in {"go", "next", "back"}
        => IF ret'.success
           THEN cue_state'.current_index = ret'.index
           ELSE cue_state'.current_index = cue_state.current_index ]_vars

\* C5: a go whose id or index resolves to no cue returns a failure and changes
\* neither current_index, the pending timers, the store nor any parameter.
C5_GoMissMutatesNothing ==
    [][ ( /\ call'.op = "go"
          /\ IF call'.id # NoId THEN call'.id \notin TableIds(table)
             ELSE call'.index \notin IndexSet(table) )
        => ( /\ ~ret'.success
             /\ cue_state' = cue_state
             /\ runs' = runs
             /\ table' = table
             /\ pars' = pars ) ]_vars

\* a go that missed while a timer was pending and a cue had been executed
C5_Witness ==
    /\ call.op = "go" /\ ret.error = "Cue not found"
    /\ Timers(runs) # {}
    /\ cue_state.current_index # 0
    /\ pars.a.p = 1

\* C6: in every reachable state at most one autofollow timer is pending.
C6_AtMostOneTimerPending == Cardinality(Timers(runs)) <= 1

\* C7: whenever a cue execution begins while an autofollow timer is pending,
\* that timer is cancelled (here: it is gone after the call, or its cancel
\* script is scheduled), whether or not the executed cue has autofollow.
C7_ExecutionCancelsPendingTimer ==
    [][ TargetFound
        => \A r \in Timers(runs) :
              \/ call'.op = "timer" /\ call'.id = r.h
              \/ r.h \notin Live(runs')
              \/ \E c \in runs' : c.kind = "cancel" /\ c.arg = r.h ]_vars

\* C8 as stated: a successful execution of an autofollow cue with duration
\* d > 0 at index i arms one timer that invokes go(index = i + 1) once, after
\* d times the frame rate frames.
C8_FiresAfterExactDuration ==
    [][ ( /\ call'.op \in ExecOps /\ ret'.success
          /\ ExecutedCue.autofollow = "True" /\ ExecutedCue.duration > 0 )
        => \E r \in NewTimers :
              /\ NewTimers = {r}
              /\ r.arg = ret'.index + 1
              /\ r.age = 0
              /\ 10 * r.delay = ExecutedCue.duration * FrameRate ]_vars

\* C8 amended: the timer fires after d times the frame rate frames truncated
\* to whole frames; it fires once, only when that many frames have passed,
\* and a pending timer goes away only by firing or by a cancel script.
C8_FiresAfterTruncatedDuration ==
    /\ [][ ( /\ call'.op \in ExecOps /\ ret'.success
             /\ ExecutedCue.autofollow = "True" /\ ExecutedCue.duration > 0 )
           => \E r \in NewTimers :
                 /\ NewTimers = {r}
                 /\ r.arg = ret'.index + 1
                 /\ r.age = 0
                 /\ 10 * r.delay <= ExecutedCue.duration * FrameRate
                 /\ ExecutedCue.duration * FrameRate < 10 * (r.delay + 1) ]_vars
    /\ [][ call'.op = "timer"
           => \E r \in Timers(runs) :
                 /\ r.h = call'.id /\ r.arg = call'.index
                 /\ r.age = r.delay
                 /\ r \notin runs' ]_vars
    /\ [][ \A r \in Timers(runs) :
              \/ r.h \in Live(runs')
              \/ call'.op = "timer" /\ call'.id = r.h
              \/ call'.op = "cancel" /\ call'.id = r.h ]_vars

\* the timer armed for a 1.2 s cue fires two frames later and executes i + 1
C8_Witness ==
    /\ call.op = "timer" /\ ret.success
    /\ ret.index = call.index
    /\ \E i \in 1..Len(table) :
          /\ table[i].index = call.index - 1
          /\ table[i].autofollow = "True" /\ table[i].duration = 12

\* C9: a successful cue execution arms an autofollow timer if and only if the
\* cue has autofollow=true and duration > 0.
C9_ArmsIffAutofollowAndDuration ==
    [][ ( call'.op \in ExecOps /\ ret'.success )
        => ( NewTimers # {}
             <=> (ExecutedCue.autofollow = "True" /\ ExecutedCue.duration > 0) ) ]_vars

\* an autofollow cue of duration 0 was executed and no timer is pending
C9_Witness ==
    /\ call.op = "go" /\ ret.success
    /\ table[FindRowById(table, ret.id, 1)].autofollow = "True"
    /\ table[FindRowById(table, ret.id, 1)].duration = 0
    /\ runs = {}
    /\ cue_state.autofollow_timer = NoTimer

\* C10: next() when no cue has index current_index + 1 returns success=false,
\* error "No more cues" and the unchanged current_index, and leaves
\* current_index and the pending timers as they were, also across a gap.
C10_NextPastEndFails ==
    [][ ( /\ call'.op = "next"
          /\ (cue_state.current_index + 1) \notin IndexSet(table) )
        => ( /\ ~ret'.success
             /\ ret'.error = "No more cues"
             /\ ret'.current_index = cue_state.current_index
             /\ cue_state' = cue_state
             /\ runs' = runs ) ]_vars

\* next() failed although a cue with a larger index lies beyond a gap
C10_Witness ==
    /\ call.op = "next" /\ ret.error = "No more cues"
    /\ (cue_state.current_index + 1) \notin IndexSet(table)
    /\ \E idx \in IndexSet(table) : idx > cue_state.current_index + 1

\* C32: in a store whose indices are exactly 1..N, a next() call with
\* current_index = k < N executes the cue at index k + 1 and sets
\* current_index to k + 1, so that N calls from current_index = 0 execute the
\* cues 1, 2, ..., N in order; the call with current_index = N fails with
\* "No more cues" and leaves current_index = N.
C32_NextWalksTheShow ==
    [][ ( /\ call'.op = "next"
          /\ IsPermutation(table)
          /\ cue_state.current_index \in 0..Len(table) )
        => IF cue_state.current_index < Len(table)
           THEN /\ ret'.success
                /\ ret'.index = cue_state.current_index + 1
                /\ cue_state'.current_index = cue_state.current_index + 1
           ELSE /\ ~ret'.success
                /\ ret'.error = "No more cues"
                /\ cue_state'.current_index = Len(table) ]_vars

\* C11: back() when current_index is 0 or 1 returns the failure "Already at
\* first cue", executes no cue and leaves current_index, the pending timers,
\* the store and the parameters unchanged; no back() sets current_index
\* below 1.
C11_BackAtFirstCueFails ==
    /\ [][ ( call'.op = "back" /\ cue_state.current_index \in {0, 1} )
           => ( /\ ~ret'.success
                /\ ret'.error = "Already at first cue"
                /\ ret'.current_index = cue_state.current_index
                /\ ret'.results = NoResults
                /\ cue_state' = cue_state
                /\ runs' = runs
                /\ table' = table
                /\ pars' = pars ) ]_vars
    /\ [][ call'.op = "back"
           => \/ cue_state'.current_index = cue_state.current_index
              \/ cue_state'.current_index >= 1 ]_vars

\* back() was refused at the first cue while its autofollow timer was pending
C11_Witness ==
    /\ call.op = "back" /\ ret.error = "Already at first cue"
    /\ cue_state.current_index = 1
    /\ Timers(runs) # {}
    /\ cue_state.autofollow_timer \in Live(runs)

\* the step is the firing of a timer that a later arming superseded
StaleFiring == call'.op = "timer" /\ call'.id # cue_state.autofollow_timer

\* C21: a superseded timer that fires executes the cue it targeted once, and
\* no further automatic execution follows from that firing: the execution
\* arms no timer.
C21_StaleFiringArmsNothing ==
    [][ StaleFiring => NewTimers = {} ]_vars

\* C25: once an autofollow execution has armed a new timer, the earlier
\* timer never fires: every timer that fires is the one whose handle is stored.
C25_OnlyStoredTimerFires ==
    [][ call'.op = "timer" => call'.id = cue_state.autofollow_timer ]_vars

\* C26: a stored timer handle always refers to a timer that is still pending;
\* after a firing none is stored unless the fired execution armed one.
C26_StoredHandleIsPending ==
    cue_state.autofollow_timer # NoTimer => cue_state.autofollow_timer \in Live(runs)

Greatest(S) == CHOOSE m \in S : \A n \in S : n <= m

\* C14: a save with no id, or with an id no cue has, appends exactly one cue
\* whose index is the greatest existing index plus one (1 in an empty store)
\* and whose id is the caller's when one was given, returns that id and
\* index with created, and leaves the existing cues as they were.
C14_CreateAppendsAtMaxPlusOne ==
    [][ ( /\ call'.op = "save"
          /\ call'.id = NoId \/ call'.id \notin TableIds(table) )
        => ( /\ Len(table') = Len(table) + 1
             /\ \A i \in 1..Len(table) : table'[i] = table[i]
             /\ table'[Len(table')].index =
                    IF table = << >> THEN 1 ELSE Greatest(IndexSet(table)) + 1
             /\ call'.id # NoId => table'[Len(table')].id = call'.id
             /\ ret'.success /\ ret'.flag = "created"
             /\ ret'.id = table'[Len(table')].id
             /\ ret'.index = table'[Len(table')].index ) ]_vars

\* C15: a save whose id matches a cue rewrites that cue's name, snapshot,
\* duration, autofollow and actions (and its modified time) only: its id,
\* index and created time, the number of cues and every other cue stay.
C15_UpdateTouchesOneCue ==
    [][ ( call'.op = "save" /\ call'.id \in TableIds(table) )
        => LET r == CHOOSE i \in 1..Len(table) : table[i].id = call'.id IN
           /\ ret'.success /\ ret'.flag = "updated" /\ ret'.id = call'.id
           /\ Len(table') = Len(table)
           /\ \A i \in 1..Len(table) : i # r => table'[i] = table[i]
           /\ table'[r].id = table[r].id
           /\ table'[r].index = table[r].index
           /\ table'[r].created = table[r].created
           /\ table'[r].name = call'.data.name
           /\ table'[r].snapshot = call'.data.snapshot
           /\ table'[r].duration = call'.data.duration
           /\ table'[r].autofollow = StrOfBool(call'.data.autofollow)
           /\ table'[r].actions = call'.data.actions ]_vars

\* one of two cues was rewritten at a later time than it was created
C15_Witness ==
    /\ call.op = "save" /\ ret.flag = "updated"
    /\ Len(table) = 2
    /\ \E i, j \in 1..2 :
          /\ table[i].id = call.id /\ table[j].id # call.id
          /\ table[i].name = "B" /\ table[j].name = "A"
          /\ table[i].created = 1 /\ table[i].modified = 2

\* the store without its modified times
Unstamped(tbl) == [i \in 1..Len(tbl) |-> [tbl[i] EXCEPT !.modified = 0]]

\* C16: a save that repeats the save before it, same id and same fields,
\* leaves the store as the first one left it but for the modified time: no
\* second cue, the same index.
C16_SaveTwiceIsSaveOnce ==
    [][ ( /\ call.op = "save" /\ call'.op = "save"
          /\ call'.id # NoId
          /\ call'.data = call.data )
        => ( /\ ret'.success /\ ret'.flag = "updated"
             /\ Unstamped(table') = Unstamped(table) ) ]_vars

\* the save that created a cue was repeated a second later
C16_Witness ==
    /\ call.op = "save" /\ ret.flag = "updated"
    /\ Len(table) = 1
    /\ table[1].id = call.id
    /\ table[1].name = call.data.name /\ table[1].snapshot = call.data.snapshot
    /\ table[1].created = 1 /\ table[1].modified = 2

\* C17: delete of an existing id removes that row and leaves the id, index
\* and content of the other rows as they were (a gap may remain); delete of
\* an unknown id fails and leaves the store unchanged.
C17_DeleteRemovesOneCue ==
    [][ call'.op = "delete"
        => IF call'.id \in TableIds(table)
           THEN /\ ret'.success
                /\ call'.id \notin TableIds(table')
                /\ \E r \in 1..Len(table) :
                      /\ table[r].id = call'.id
                      /\ table' = RemoveAt(table, r)
           ELSE /\ ~ret'.success
                /\ table' = table ]_vars

\* the first of two cues was deleted: the other one keeps index 2
C17_Witness ==
    /\ call.op = "delete" /\ ret.success
    /\ Len(table) = 1
    /\ table[1].index = 2
    /\ table[1].name = "B"

\* C18: no two cues have the same id, and no save, delete or reorder changes
\* the id of a cue: the ids of the rows stay, but for a row that is appended
\* or removed.
C18_IdsUniqueAndImmutable ==
    /\ [](\A i, j \in 1..Len(table) : table[i].id = table[j].id => i = j)
    /\ [][ LET ids == [i \in 1..Len(table) |-> table[i].id]
               ids2 == [i \in 1..Len(table') |-> table'[i].id]
           IN  \/ ids2 = ids
               \/ \E id \in Ids \ TableIds(table) : ids2 = Append(ids, id)
               \/ \E r \in 1..Len(table) : ids2 = RemoveAt(ids, r) ]_vars

\* a save with the id of a cue that had been moved updated it
C18_Witness ==
    /\ call.op = "save" /\ call.id # NoId /\ ret.flag = "updated"
    /\ Len(table) = 2
    /\ table[1].index > table[2].index
    /\ table[1].id # table[2].id

\* ---------------------------------------------------------------- execution claims
\* the stored row a go names, when there is one
GoTarget ==
    IF call'.id # NoId
    THEN table[CHOOSE i \in 1..Len(table) : table[i].id = call'.id]
    ELSE table[CHOOSE i \in 1..Len(table) : table[i].index = call'.index]

\* a parameter action that names a node and a parameter the scene has
Writes(action) ==
    /\ action.type = "parameter"
    /\ action.path \in DOMAIN ScenePars
    /\ action.parameter \in DOMAIN ScenePars[action.path]

\* the positions of the actions that write parameter name of node path
WritersOf(actions, path, name) ==
    { k \in 1..Len(actions) :
        Writes(actions[k]) /\ actions[k].path = path /\ actions[k].parameter = name }

Last(S) == CHOOSE m \in S : \A n \in S : n <= m

\* C12: an executed cue's actions run in list order, each of them also after
\* a failed one, and actions_executed holds one entry per action, in the same
\* order, with that action's own success flag.
C12_ActionsAllRunInOrder ==
    [][ ( call'.op = "go" /\ ret'.success )
        => LET actions == ExecutedCue.actions
               executed == ret'.results.actions_executed
           IN  /\ Len(executed) = Len(actions)
               /\ \A k \in 1..Len(actions) :
                     /\ executed[k].action = actions[k]
                     /\ executed[k].result.success = Writes(actions[k])
               /\ \A path \in DOMAIN ScenePars : \A name \in DOMAIN ScenePars[path] :
                     LET W == WritersOf(actions, path, name) IN
                     W # {} => pars'[path][name] = actions[Last(W)].value ]_vars

\* four actions ran, the first and the third failed, the last write won
C12_Witness ==
    /\ call.op = "go" /\ ret.success
    /\ Len(ret.results.actions_executed) = 4
    /\ ~ret.results.actions_executed[1].result.success
    /\ ret.results.actions_executed[2].result.success
    /\ ~ret.results.actions_executed[3].result.success
    /\ ret.results.actions_executed[4].result.success
    /\ pars.a.p = 3

\* the positions of the snapshot's enabled entries whose node does not resolve
Unresolvable(snapshot) ==
    { k \in 1..Len(snapshot) : snapshot[k].enabled /\ snapshot[k].path \notin DOMAIN ScenePars }

Resolvable(snapshot) ==
    { k \in 1..Len(snapshot) : snapshot[k].enabled /\ snapshot[k].path \in DOMAIN ScenePars }

WellFormed(snapshot) == \A k \in 1..Len(snapshot) : snapshot[k].ismap

\* C13: executing a cue whose snapshot has resolvable and unresolvable
\* enabled nodes returns success, snapshot_errors has exactly one entry for
\* each unresolvable node, and every resolvable enabled node's parameters
\* are written wherever the unresolvable nodes stand in the snapshot.
C13_SnapshotIsBestEffort ==
    [][ ( call'.op = "go" /\ TargetFound /\ WellFormed(GoTarget.snapshot) )
        => LET snapshot == GoTarget.snapshot
               errors == ret'.results.snapshot_errors
           IN  /\ ret'.success
               /\ Len(errors) = Cardinality(Unresolvable(snapshot))
               /\ \A k \in Unresolvable(snapshot) :
                     Cardinality({ j \in 1..Len(errors) : errors[j].path = snapshot[k].path }) = 1
               /\ \A k \in Resolvable(snapshot) :
                     \A n \in 1..Len(snapshot[k].params) :
                        LET par == snapshot[k].params[n] IN
                        ( /\ par.name \in DOMAIN ScenePars[snapshot[k].path]
                          /\ WritersOf(GoTarget.actions, snapshot[k].path, par.name) = {} )
                        => pars'[snapshot[k].path][par.name] = par.value ]_vars

\* nodes a and b were written although x came between them and y after
C13_Witness ==
    /\ call.op = "go" /\ ret.success
    /\ Len(ret.results.snapshot_errors) = 2
    /\ Len(ret.results.snapshot_applied) = 2
    /\ ret.results.snapshot_errors[1].path = "x"
    /\ pars.a.p = 1 /\ pars.b.p = 1

\* ---------------------------------------------------------------- claims on a show being edited
StoreOps == {"save", "delete", "reorder", "list"}

\* C34: save, delete, reorder and list never change current_index or the
\* pending autofollow timer; deleting or moving the cue that was executed
\* last leaves current_index at its old numeric value.
C34_StoreOpsLeaveEngineAlone ==
    [][ call'.op \in StoreOps => ( cue_state' = cue_state /\ runs' = runs ) ]_vars

\* the current cue was deleted while its timer was pending: current_index
\* designates no cue
C34_Witness ==
    /\ call.op = "delete" /\ ret.success
    /\ cue_state.current_index = 1
    /\ cue_state.current_index \notin IndexSet(table)
    /\ Timers(runs) # {}

\* the cue the firing finds: the first row that holds the index
HolderOf(tbl, index) ==
    tbl[CHOOSE i \in 1..Len(tbl) :
            tbl[i].index = index /\ \A j \in 1..(i - 1) : tbl[j].index # index]

\* C35: the autofollow target is fixed when the timer is armed, as the index
\* of the executed cue + 1, and no save, delete or reorder changes it; the
\* firing executes whichever cue holds that index at fire time, and executes
\* nothing and changes no state if no cue holds it.
C35_TimerTargetsIndexNotCue ==
    [][ /\ ( call'.op \in ExecOps /\ ret'.success )
            => \A r \in NewTimers : r.arg = ret'.index + 1
        /\ call'.op \in {"save", "delete", "reorder"} => Timers(runs') = Timers(runs)
        /\ call'.op = "timer"
            => IF call'.index \in IndexSet(table)
               THEN /\ ret'.success
                    /\ ret'.index = call'.index
                    /\ ret'.id = HolderOf(table, call'.index).id
                    /\ cue_state'.current_index = call'.index
               ELSE /\ ~ret'.success
                    /\ cue_state'.current_index = cue_state.current_index
                    /\ cue_state'.autofollow_timer \in {cue_state.autofollow_timer, Stale}
                    /\ NewTimers = {}
                    /\ Cardinality(runs') < Cardinality(runs)
                    /\ table' = table /\ pars' = pars
                    /\ project' = project /\ osc_out' = osc_out ]_vars

\* a timer armed at index 1 by an autofollow cue executed the cue at index 2
\* after another cue had taken index 1
C35_Witness ==
    /\ call.op = "timer" /\ ret.success
    /\ call.index = 2 /\ ret.index = 2
    /\ \E i \in 1..Len(table) :
          table[i].index = 1 /\ ~ParseAutofollow(table[i].autofollow)

\* a firing found no cue at its index after the store had changed
C35_WitnessMiss ==
    /\ call.op = "timer" /\ ~ret.success
    /\ call.index \notin IndexSet(table)
    /\ cue_state.current_index = call.index - 1
    /\ \E i \in 1..Len(table) :
          table[i].index = cue_state.current_index /\ ~ParseAutofollow(table[i].autofollow)

\* C36: with a finite store and no further external calls, the chain of
\* autofollow executions started by a go terminates: each firing arms at
\* most a timer for the index after the one it executed, a firing whose
\* index has no cue arms none, and eventually no timer is pending.
C36_ChainTerminates ==
    /\ [][ call'.op = "timer"
            => IF call'.index \in IndexSet(table)
               THEN \A r \in NewTimers : r.arg = call'.index + 1
               ELSE NewTimers = {} ]_vars
    /\ ( Timers(runs) # {} ) ~> ( Timers(runs) = {} )

\* a chain ran through two autofollow cues and ended past the last one
C36_Witness ==
    /\ call.op = "timer" /\ ~ret.success
    /\ Len(table) = 2 /\ call.index = 3
    /\ cue_state.current_index = 2
    /\ \A i \in 1..Len(table) : ParseAutofollow(table[i].autofollow)
    /\ Timers(runs) = {}

\* ---------------------------------------------------------------- go request claims
\* C37: a go request with a non-empty id ignores the index of the same
\* request: the cue with that id is the target, and if no cue has that id the
\* request fails with no state change even when a cue holds the given index;
\* a request with neither id nor index fails without executing anything.
C37_IdWinsOverIndex ==
    [][ call'.op = "go"
        => IF call'.id # NoId
           THEN IF call'.id \in TableIds(table)
                THEN /\ ret'.success
                     /\ ret'.id = call'.id
                     /\ ret'.index = table[FindRowById(table, call'.id, 1)].index
                     /\ cue_state'.current_index = ret'.index
                ELSE /\ ~ret'.success
                     /\ UNCHANGED <<table, cue_state, runs, pars, project, osc_out>>
           ELSE call'.index = NoIndex
                => /\ ~ret'.success
                   /\ ret'.error = "No cue ID or index provided"
                   /\ UNCHANGED <<table, cue_state, runs, pars, project, osc_out>> ]_vars

\* the request named the second cue by id and the first by index
C37_Witness ==
    /\ call.op = "go" /\ ret.success
    /\ call.id # NoId /\ call.index = 1
    /\ ret.id = call.id /\ ret.index = 2 /\ cue_state.current_index = 2
    /\ 1 \in IndexSet(table)

\* the request named no stored cue by id and a stored one by index
C37_WitnessMiss ==
    /\ call.op = "go" /\ ~ret.success
    /\ call.id \notin TableIds(table) /\ call.id # NoId
    /\ call.index \in IndexSet(table)

\* ---------------------------------------------------------------- capture claims
\* C38: capture followed by apply is a round trip: executing a cue saved
\* with a snapshot captured from the scene leaves every captured parameter
\* at its captured value, menu parameters by selected index and toggle
\* parameters by 0/1; with no parameter change in between nothing changes.
C38_CaptureApplyRoundTrip ==
    [][ ( call'.op = "go" /\ ret'.success /\ ExecutedCue.name = "captured" )
        => LET snapshot == ExecutedCue.snapshot IN
           /\ \A k \in 1..Len(snapshot) : \A n \in 1..Len(snapshot[k].params) :
                 LET par == snapshot[k].params[n]
                     now == pars'[snapshot[k].path][par.name]
                 IN  IF par.name \in TogglePars
                     THEN par.value \in {0, 1} /\ (now <=> par.value = 1)
                     ELSE now = par.value
           /\ { snapshot[k].path : k \in 1..Len(snapshot) } = DOMAIN ScenePars
           /\ \A k \in 1..Len(snapshot) :
                 { snapshot[k].params[n].name : n \in 1..Len(snapshot[k].params) }
                    = DOMAIN ScenePars[snapshot[k].path] \ ReadOnlyPars
           /\ snapshot = snapshot_all_components(pars, 1) => pars' = pars ]_vars

\* a captured look with the menu at index 1 and the toggle on was recalled
\* after another look had changed the scene
C38_Witness ==
    /\ call.op = "go" /\ ret.success
    /\ table[FindRowById(table, ret.id, 1)].name = "captured"
    /\ pars.a.m = 1 /\ pars.b.t /\ pars.a.p = 1 /\ pars.b.p = 2
    /\ \E i \in 1..Len(table) : table[i].snapshot = SnapLookTwo

\* ---------------------------------------------------------------- snapshot write claims
\* the snapshot entry a result entry is about
EntryOf(snapshot, path) == snapshot[CHOOSE k \in 1..Len(snapshot) : snapshot[k].path = path]

\* a parameter the node does not have, or one that is read-only
Unwritable(path, name) == name \notin DOMAIN ScenePars[path] \/ name \in ReadOnlyPars

Paths(list) == { list[n].path : n \in 1..Len(list) }
Count(list, path) == Cardinality({ n \in 1..Len(list) : list[n].path = path })

\* C29: an entry with enabled=false is skipped: its parameters are not
\* written and it is in neither snapshot_applied nor snapshot_errors; every
\* enabled entry is in exactly one of the two lists, once.
C29_DisabledEntriesAreSkipped ==
    [][ ( call'.op = "go" /\ TargetFound /\ WellFormed(GoTarget.snapshot) )
        => LET snapshot == GoTarget.snapshot
               applied == ret'.results.snapshot_applied
               errors == ret'.results.snapshot_errors
           IN  \A k \in 1..Len(snapshot) :
                  IF snapshot[k].enabled
                  THEN Count(applied, snapshot[k].path) + Count(errors, snapshot[k].path) = 1
                  ELSE /\ snapshot[k].path \notin Paths(applied) \cup Paths(errors)
                       /\ ( /\ snapshot[k].path \in DOMAIN ScenePars
                             /\ \A name \in DOMAIN ScenePars[snapshot[k].path] :
                                   WritersOf(GoTarget.actions, snapshot[k].path, name) = {} )
                           => pars'[snapshot[k].path] = pars[snapshot[k].path] ]_vars

\* the disabled entry of node a was not written, the enabled one of b was
C29_Witness ==
    /\ call.op = "go" /\ ret.success
    /\ Len(ret.results.snapshot_applied) = 1 /\ ret.results.snapshot_applied[1].path = "b"
    /\ Len(ret.results.snapshot_errors) = 1 /\ ret.results.snapshot_errors[1].path = "y"
    /\ pars.a.p = 0 /\ pars.b.p = 1

\* ---------------------------------------------------------------- action claims
\* a timeline action that lacks the field it needs
LacksField(action) ==
    /\ "type" \in DOMAIN action /\ action.type = "timeline"
    /\ "action" \in DOMAIN action
    /\ \/ action.action = "jump_frame" /\ "frame" \notin DOMAIN action
       \/ action.action = "set_rate" /\ "rate" \notin DOMAIN action

\* C22: a timeline action jump_frame without frame, or set_rate without
\* rate, returns a failure and leaves the timeline's frame and rate as they were.
C22_MissingFieldFails ==
    [][ ( call'.op = "go" /\ ret'.success )
        => LET actions == ExecutedCue.actions
               executed == ret'.results.actions_executed
           IN  /\ \A k \in 1..Len(actions) :
                     LacksField(actions[k]) => ~executed[k].result.success
               /\ ( actions # << >> /\ \A k \in 1..Len(actions) : LacksField(actions[k]) )
                   => ( project'.frame = project.frame /\ project'.rate = project.rate ) ]_vars

\* C24: within a successful go the snapshot is written first, then the
\* actions run, then current_index is updated, then autofollow is armed: an
\* action that reads current_index while it runs sees the previous value.
C24_ActionSeesPreviousIndex ==
    [][ ( /\ call'.op = "go" /\ ret'.success
          /\ ExecutedCue.actions = ActObserve )
        => pars'.a.p = cue_state.current_index ]_vars

KnownTypes == {"python", "osc", "parameter", "timeline"}
KnownTimelineActions == {"play", "pause", "stop", "jump_frame", "set_rate", "toggle_loop"}

\* the action's type, or its timeline sub-action, is not one the engine knows
UnknownVariant(action) ==
    \/ Get(action, "type", "") \notin KnownTypes
    \/ /\ Get(action, "type", "") = "timeline"
       /\ Get(action, "action", "") \notin KnownTimelineActions

\* the value the error of an unknown variant has to name
UnknownValue(action) ==
    IF Get(action, "type", "") = "timeline" THEN Get(action, "action", "")
    ELSE Get(action, "type", "")

\* the actions of known variants, in order
RECURSIVE KnownOnly(_)
KnownOnly(actions) ==
    IF actions = << >> THEN << >>
    ELSE IF UnknownVariant(Head(actions)) THEN KnownOnly(Tail(actions))
    ELSE <<Head(actions)>> \o KnownOnly(Tail(actions))

\* the result entries of the actions of known variants, in order
RECURSIVE KnownEntries(_)
KnownEntries(executed) ==
    IF executed = << >> THEN << >>
    ELSE IF UnknownVariant(Head(executed).action) THEN KnownEntries(Tail(executed))
    ELSE <<Head(executed)>> \o KnownEntries(Tail(executed))

\* C30: an action of unknown type, or a timeline action with an unknown
\* sub-action, returns success=false with an error that names the unknown
\* value, has no effect on parameters, timeline or transport, and the other
\* actions of the cue run as they would without it.
C30_UnknownVariantOnlyFails ==
    [][ ( call'.op = "go" /\ ret'.success )
        => LET actions == ExecutedCue.actions
               executed == ret'.results.actions_executed
               env == [pars |-> pars, project |-> project, osc_out |-> osc_out,
                       cue_state |-> cue_state']
               others == RunActions(KnownOnly(actions), 1, env, NoResults)
           IN  /\ Len(executed) = Len(actions)
               /\ \A k \in 1..Len(actions) :
                     UnknownVariant(actions[k])
                     => ( /\ ~executed[k].result.success
                          /\ executed[k].result.error \in
                                {"Unknown action type", "Unknown timeline action"}
                          /\ executed[k].result.named = UnknownValue(actions[k]) )
               /\ KnownEntries(executed) = others.results.actions_executed
               /\ ExecutedCue.snapshot = << >>
                   => ( /\ pars' = others.env.pars
                        /\ project' = others.env.project
                        /\ osc_out' = others.env.osc_out ) ]_vars

\* two unknown variants failed and the four actions after them did their work
C30_Witness ==
    /\ call.op = "go" /\ ret.success
    /\ Len(ret.results.actions_executed) = 6
    /\ ret.results.actions_executed[1].result.named = "bogus"
    /\ ret.results.actions_executed[2].result.named = "rewind"
    /\ \A k \in 3..6 : ret.results.actions_executed[k].result.success
    /\ pars.a.p = 2 /\ project.frame = 3 /\ project.rate = 20
    /\ osc_out.exists /\ osc_out.sent.address = "/go"

\* the positions of the osc actions of a list
OscActions(actions) == { k \in 1..Len(actions) : Get(actions[k], "type", "") = "osc" }

\* C31: every osc action sends its message to the host and port named in
\* that action, whether it created the transport or a later action naming
\* another host or port did: after an execution, the last message went to
\* the receiver of the cue's last osc action.
C31_OscGoesToNamedReceiver ==
    [][ ( /\ call'.op = "go" /\ ret'.success
          /\ OscActions(ExecutedCue.actions) # {} )
        => LET action == ExecutedCue.actions[Last(OscActions(ExecutedCue.actions))]
           IN  /\ osc_out'.sent.address = Get(action, "address", "")
               /\ osc_out'.sent.host = Get(action, "host", "127.0.0.1")
               /\ osc_out'.sent.port = Get(action, "port", 7000) ]_vars

\* ---------------------------------------------------------------- request claims
\* C19: list() returns every cue of the store exactly once, in ascending
\* index order, with the engine's current_index, and changes neither the
\* store nor the engine state.
C19_ListReturnsEveryCueSorted ==
    [][ ( call'.op = "list" /\ available )
        => ( /\ ret'.success
             /\ Len(ret'.cues) = Len(table)
             /\ \A i \in 1..Len(table) :
                   Cardinality({ k \in 1..Len(ret'.cues) : ret'.cues[k].id = table[i].id }) = 1
             /\ \A k, l \in 1..Len(ret'.cues) :
                   k < l => ret'.cues[k].index <= ret'.cues[l].index
             /\ ret'.current_index = cue_state.current_index
             /\ UNCHANGED <<table, cue_state, runs, pars>> ) ]_vars

PublicOps == {"list", "save", "delete", "reorder", "go", "next", "back", "current"}

\* C20: every list, save, delete, reorder, go, next, back and current call
\* returns a result with a success flag and never raises, whatever the
\* store holds and also while the cue table is unavailable.
C20_RequestsNeverRaise ==
    call.op \in PublicOps => ( ~ret.raised /\ ret.success \in BOOLEAN )

====
